---- MODULE Spec2Model ----
(***************************************************************************)
(* Chat response orchestration of the Shopify chatbot backend:             *)
(* POST /api/chat (validation, LLM attempt with context, rule-based        *)
(* fallback with catalog lookups), callLLM (provider adapters) and         *)
(* POST /api/settings (process-wide provider configuration).               *)
(***************************************************************************)
EXTENDS Integers, Sequences, FiniteSets, TLC

(***************************************************************************)
(* JavaScript values.  A value is a tagged record so that undefined, null, *)
(* strings and arrays of strings can be compared; Truthy is JavaScript's   *)
(* ToBoolean on them and StringOf its conversion to a string.              *)
(***************************************************************************)
Undefined == [t |-> "undefined", v |-> ""]

Null == [t |-> "null", v |-> ""]

Str(s) == [t |-> "string", v |-> s]

Arr(items) == [t |-> "array", v |-> "", items |-> items]

Truthy(x) == (x.t = "string" /\ x.v # "") \/ x.t = "array"

RECURSIVE JoinComma(_)
JoinComma(items) ==
    IF Len(items) = 0 THEN ""
    ELSE IF Len(items) = 1 THEN items[1]
    ELSE items[1] \o "," \o JoinComma(Tail(items))

\* String(x): an array is the join of its elements with ","
StringOf(x) ==
    CASE x.t = "string"    -> x.v
      [] x.t = "array"     -> JoinComma(x.items)
      [] x.t = "null"      -> "null"
      [] x.t = "undefined" -> "undefined"

(***************************************************************************)
(* Strings.  TLC strings support Len, \o and SubSeq.                       *)
(***************************************************************************)
UpperAlphabet == "ABCDEFGHIJKLMNOPQRSTUVWXYZ"

LowerAlphabet == "abcdefghijklmnopqrstuvwxyz"

CharAt(s, i) == SubSeq(s, i, i)

UpperChars == { CharAt(UpperAlphabet, i) : i \in 1..26 }

LowerOf ==
    [ c \in UpperChars |->
        CharAt(LowerAlphabet, CHOOSE i \in 1..26 : CharAt(UpperAlphabet, i) = c) ]

LowerChar(c) == IF c \in UpperChars THEN LowerOf[c] ELSE c

RECURSIVE toLowerCase(_)
toLowerCase(s) ==
    IF Len(s) = 0 THEN ""
    ELSE LowerChar(CharAt(s, 1)) \o toLowerCase(SubSeq(s, 2, Len(s)))

\* s contains the literal pat as a substring
Includes(s, pat) ==
    \E i \in 1..(Len(s) - Len(pat) + 1) : SubSeq(s, i, i + Len(pat) - 1) = pat

\* /a|b|c/i.test(s) for a regular expression that is an alternation of
\* literals: alts is the set of the alternatives
RegexTestI(alts, s) ==
    LET ls == toLowerCase(s)
    IN  \E p \in alts : Includes(ls, toLowerCase(p))

(***************************************************************************)
(* Vocabularies of the regular expressions of the chat handler.            *)
(***************************************************************************)
ProductVocab == {"product", "item", "merchandise", "goods", "buy", "purchase", "order"}

SpecificProductVocab == {"7-in-1 LED", "LED Light Therapy", "Light Therapy Device", "Youthful Skin"}

RewardsVocab == {"reward", "loyalty", "points", "program", "earn", "redeem"}

FaqVocab == {"faq", "question", "frequently asked"}

RefundVocab == {"refund", "return", "exchange", "money back"}

ShippingVocab == {"shipping", "delivery", "postage", "send", "track"}

PrivacyVocab == {"privacy", "data", "information", "collect", "cookie"}

TermsVocab == {"terms", "conditions", "service", "legal"}

ContactVocab == {"contact", "support", "help", "email", "phone", "call"}

SocialMediaVocab == {"social", "media", "facebook", "instagram", "twitter", "tiktok", "follow"}

BeautyQueryVocab == {"beauty", "beauty essentials", "skincare", "makeup", "cosmetic"}

KitchenQueryVocab == {"kitchen", "cooking", "culinary", "baking"}

BeautyTitleVocab == {"beauty", "beauty essentials"}

KitchenTitleVocab == {"kitchen", "kitchen essentials"}

(***************************************************************************)
(* Pre-authored reply texts (each is the opening of the source's text).    *)
(* Strings keep to ASCII: the bullet character U+2022 is written "*" and   *)
(* the pound sign U+00A3 is written "GBP", here and in every other text.   *)
(***************************************************************************)
FaqReply == "You can find answers to frequently asked questions on our FAQ page: https://irisessentials.com/pages/faqs"

RefundReply == "Our refund policy includes:\n\n* 30-day return window from delivery date"

ShippingReply == "Our shipping policy details:\n\n* Standard UK Delivery (3-5 business days): FREE on orders over GBP50, otherwise GBP3.99\n* Express UK Delivery (1-2 business days): GBP6.99"

PrivacyReply == "Our privacy policy key points:\n\n* We collect personal information (name, email, address) only for processing orders"

TermsReply == "Our Terms of Service highlights:\n\n* You must be at least 18 years old to make a purchase"

ContactReply == "You can contact our customer support team through:\n* Email: contact@irisessentials.com"

SocialMediaReply == "Follow us on social media to stay updated with our latest products and promotions:\n* Instagram: @iris_essentials"

RewardsReply == "Our Iris Rewards program lets you earn points with every purchase! Here's how it works:\n\n* Earn 1 point for every GBP1 spent"

SpecificProductReply == "**7-in-1 LED Light Therapy Device for Youthful Skin Care**\n\nPrice: GBP89.99"

DefaultReply == "I'm here to help you with information about our products, rewards program, shipping, returns, and more. What would you like to know? I can provide details about our policies, not just links."

(***************************************************************************)
(* Intent flags and dispatch of the rule-based path.                       *)
(***************************************************************************)
IntentFlags(m) ==
    [ isProductQuery         |-> RegexTestI(ProductVocab, m),
      isSpecificProductQuery |-> RegexTestI(SpecificProductVocab, m),
      isRewardsQuery         |-> RegexTestI(RewardsVocab, m),
      isFaqQuery             |-> RegexTestI(FaqVocab, m),
      isRefundQuery          |-> RegexTestI(RefundVocab, m),
      isShippingQuery        |-> RegexTestI(ShippingVocab, m),
      isPrivacyQuery         |-> RegexTestI(PrivacyVocab, m),
      isTermsQuery           |-> RegexTestI(TermsVocab, m),
      isContactQuery         |-> RegexTestI(ContactVocab, m),
      isSocialMediaQuery     |-> RegexTestI(SocialMediaVocab, m) ]

\* IntentDispatch with the product branch tested before the policy branches
IntentDispatchProductFirst(f) ==
    IF f.isFaqQuery THEN "faq"
    ELSE IF f.isProductQuery THEN "product"
    ELSE IF f.isRefundQuery THEN "refund"
    ELSE IF f.isShippingQuery THEN "shipping"
    ELSE IF f.isPrivacyQuery THEN "privacy"
    ELSE IF f.isTermsQuery THEN "terms"
    ELSE IF f.isContactQuery THEN "contact"
    ELSE IF f.isSocialMediaQuery THEN "social"
    ELSE IF f.isRewardsQuery THEN "rewards"
    ELSE IF f.isSpecificProductQuery THEN "specificProduct"
    ELSE "default"

\* the branch of the if / else-if chain that is taken
IntentDispatch(f) ==
    IF f.isFaqQuery THEN "faq"
    ELSE IF f.isRefundQuery THEN "refund"
    ELSE IF f.isShippingQuery THEN "shipping"
    ELSE IF f.isPrivacyQuery THEN "privacy"
    ELSE IF f.isTermsQuery THEN "terms"
    ELSE IF f.isContactQuery THEN "contact"
    ELSE IF f.isSocialMediaQuery THEN "social"
    ELSE IF f.isRewardsQuery THEN "rewards"
    ELSE IF f.isSpecificProductQuery THEN "specificProduct"
    ELSE IF f.isProductQuery THEN "product"
    ELSE "default"

\* the fixed text each non-catalog branch answers with
StaticReply(intent) ==
    CASE intent = "faq"             -> FaqReply
      [] intent = "refund"          -> RefundReply
      [] intent = "shipping"        -> ShippingReply
      [] intent = "privacy"         -> PrivacyReply
      [] intent = "terms"           -> TermsReply
      [] intent = "contact"         -> ContactReply
      [] intent = "social"          -> SocialMediaReply
      [] intent = "rewards"         -> RewardsReply
      [] intent = "specificProduct" -> SpecificProductReply
      [] intent = "default"         -> DefaultReply

(***************************************************************************)
(* Numbers in price strings: parseFloat and Number.prototype.toFixed(2).   *)
(* A parsed number is [nan, neg, num, scale], its value num / 10^scale.    *)
(***************************************************************************)
Digits == "0123456789"

IsDigit(c) == \E i \in 1..10 : CharAt(Digits, i) = c

DigitValue(c) == (CHOOSE i \in 1..10 : CharAt(Digits, i) = c) - 1

IsWhiteSpace(c) == c \in {" ", "\t", "\n", "\r"}

RECURSIVE Pow10(_)
Pow10(n) == IF n = 0 THEN 1 ELSE 10 * Pow10(n - 1)

\* the longest run of digits of s from position i on, as [value, count]
RECURSIVE DigitRun(_, _, _, _)
DigitRun(s, i, acc, cnt) ==
    IF i <= Len(s) /\ IsDigit(CharAt(s, i))
    THEN DigitRun(s, i + 1, 10 * acc + DigitValue(CharAt(s, i)), cnt + 1)
    ELSE [value |-> acc, count |-> cnt]

RECURSIVE SkipWhiteSpace(_, _)
SkipWhiteSpace(s, i) ==
    IF i <= Len(s) /\ IsWhiteSpace(CharAt(s, i)) THEN SkipWhiteSpace(s, i + 1) ELSE i

NaN == [nan |-> TRUE, neg |-> FALSE, num |-> 0, scale |-> 0]

\* parseFloat on decimal literals without exponent: leading white space is
\* skipped, an optional sign, digits, an optional fraction; parsing stops at
\* the first character that does not fit; no digit at all gives NaN
parseFloat(s) ==
    LET i0    == SkipWhiteSpace(s, 1)
        neg   == i0 <= Len(s) /\ CharAt(s, i0) = "-"
        i1    == IF i0 <= Len(s) /\ CharAt(s, i0) \in {"-", "+"} THEN i0 + 1 ELSE i0
        int   == DigitRun(s, i1, 0, 0)
        i2    == i1 + int.count
        dot   == i2 <= Len(s) /\ CharAt(s, i2) = "."
        frac  == IF dot THEN DigitRun(s, i2 + 1, 0, 0) ELSE [value |-> 0, count |-> 0]
    IN  IF int.count + frac.count = 0 THEN NaN
        ELSE [nan |-> FALSE, neg |-> neg,
              num |-> int.value * Pow10(frac.count) + frac.value,
              scale |-> frac.count]

\* x > 0 (false for NaN)
IsPositive(x) == ~x.nan /\ ~x.neg /\ x.num > 0

RECURSIVE NatToString(_)
NatToString(n) ==
    IF n < 10 THEN CharAt(Digits, n + 1)
    ELSE NatToString(n \div 10) \o CharAt(Digits, (n % 10) + 1)

\* x.toFixed(2) for a positive x: rounded to the nearest hundredth (a decimal
\* that lies exactly half way between two hundredths is rounded up)
toFixed2(x) ==
    LET cents == IF x.scale <= 2 THEN x.num * Pow10(2 - x.scale)
                 ELSE (x.num + 5 * Pow10(x.scale - 3)) \div Pow10(x.scale - 2)
    IN  NatToString(cents \div 100) \o "." \o
        CharAt(Digits, ((cents \div 10) % 10) + 1) \o CharAt(Digits, (cents % 10) + 1)

\* s.replace(/<[^>]*>/g, ''): every "<", up to the next ">", is removed
RECURSIVE StripTags(_)
StripTags(s) ==
    IF Len(s) = 0 THEN ""
    ELSE IF CharAt(s, 1) = "<" /\ \E j \in 2..Len(s) : CharAt(s, j) = ">"
         THEN LET j == CHOOSE k \in 2..Len(s) :
                          /\ CharAt(s, k) = ">"
                          /\ \A l \in 2..(k - 1) : CharAt(s, l) # ">"
              IN  StripTags(SubSeq(s, j + 1, Len(s)))
         ELSE CharAt(s, 1) \o StripTags(SubSeq(s, 2, Len(s)))

(***************************************************************************)
(* Inputs: configuration values, chat messages, provider and catalog       *)
(* outcomes.                                                               *)
(***************************************************************************)
ProviderNames == {"openai", "Anthropic", "gemini", "acme"}

ApiKeys == {"sk-1", "sk-2"}

ModelNames == {"gemini-pro", "gemini-1.5-pro"}

OptionalStr(S) == {Undefined} \cup {Str(s) : s \in S}

\* process.env as the process can hold it: a variable is unset or a string
EnvValues ==
    [ LLM_PROVIDER : {Undefined} \cup {Str(s) : s \in ProviderNames},
      LLM_API_KEY  : {Undefined} \cup {Str(s) : s \in ApiKeys},
      LLM_MODEL    : {Undefined} \cup {Str(s) : s \in ModelNames} ]

\* req.body of POST /api/settings
SettingsBodies ==
    [ llmProvider : OptionalStr(ProviderNames) \cup {Str("")},
      llmApiKey   : OptionalStr(ApiKeys) \cup {Arr(<<>>)},
      llmModel    : OptionalStr(ModelNames) ]

\* req.body.message of POST /api/chat
ChatMessages ==
    {Undefined} \cup
    { Str(m) : m \in { "", "   ", "hello", "What are your shipping rates?",
                       "I want a REFUND for this product", "Do you BUY goods?",
                       "show me your kitchen products", "beauty items for baking",
                       "Can I order the LED Light Therapy device?" } }

\* Messages for the intent classifier: up to MaxWords words of Lexicon, one
\* word per vocabulary (some in another case, some containing a vocabulary
\* word), joined by single spaces
MaxWords == 2

Lexicon ==
    { "FAQ", "Refund", "tracking", "cookies", "legal", "helpful", "Instagram",
      "learn", "LED Light Therapy", "products", "kitchen", "hello" }

RECURSIVE Phrases(_)
Phrases(n) ==
    IF n = 1 THEN Lexicon
    ELSE { w \o " " \o ph : w \in Lexicon, ph \in Phrases(n - 1) }

IntentMessages == UNION { Phrases(n) : n \in 1..MaxWords }

LLMAnswer == "Happy to help!"

\* text found (or not) at the reply field path of a provider response
ReplyFieldValues == {Undefined, Null, Str(""), Str(LLMAnswer)}

Variant(price) == [price |-> price]

Product(title, hasVariants, variants, price, bodyHtml) ==
    [ title |-> title, hasVariants |-> hasVariants, variants |-> variants,
      price |-> price, body_html |-> bodyHtml ]

EyeMask == Product("Gold Eye Mask", TRUE, <<Variant(Str("12.5"))>>, Undefined,
                   Str("<p>Soothing <b>mask</b></p>"))

Whisk == Product("Whisk", TRUE, <<>>, Undefined, Undefined)

Serum == Product("Serum", TRUE, <<Variant(Str("0.00")), Variant(Str("19.99"))>>,
                 Str("21"), Str("<br>"))

GiftCard == Product("Gift Card", FALSE, <<>>, Str("7"), Null)

Candle == Product("Candle", TRUE, <<Variant(Null), Variant(Str("abc")), Variant(Str("-5"))>>,
                  Str("0.0"), Undefined)

Spoon == Product("Spoon", TRUE, <<Variant(Str("0")), Variant(Str(""))>>, Str("3.5"), Undefined)

\* response.body.products of the catalog ([present |-> FALSE]: field missing)
ProductBodies ==
    { [present |-> FALSE, list |-> <<>>] } \cup
    { [present |-> TRUE, list |-> l] :
        l \in { <<>>, <<EyeMask>>, <<Serum, Whisk>>, <<EyeMask, GiftCard>>,
                <<Candle, Spoon>> } }

Collection(id, title) == [id |-> id, title |-> title]

\* collectionsResponse.body.custom_collections of the catalog
CollectionBodies ==
    { [present |-> FALSE, list |-> <<>>] } \cup
    { [present |-> TRUE, list |-> l] :
        l \in { <<>>,
                <<Collection(11, "Summer Sale")>>,
                <<Collection(11, "Summer Sale"), Collection(12, "Kitchen Essentials"),
                  Collection(13, "KITCHEN tools")>>,
                <<Collection(14, "Beauty Essentials"), Collection(12, "Kitchen Essentials")>> } }

\* what client.get throws: an HTTP error carries response (status 0: the
\* response has no status field), a network error carries none
CatalogErrors ==
    { [hasResponse |-> TRUE, status |-> st, message |-> "Shopify request failed"] :
        st \in {0, 404, 503} } \cup
    { [hasResponse |-> FALSE, status |-> 0, message |-> "network failure"] }

(***************************************************************************)
(* State.                                                                  *)
(*   env  process.env: LLM_PROVIDER, LLM_API_KEY, LLM_MODEL                *)
(*   req  the chat request being handled: the handler's position (pc) and  *)
(*        locals (message, context, llmResponse, collectionId,            *)
(*        collectionName, collections, products), the frame of its callLLM call (llm), the responses sent  *)
(*        on res, and a record of what the request did (calls, inflight,   *)
(*        stages, startConfigured, llmInvocations, llmThrew, answerSeen)   *)
(*   widget  the chat widget in the browser: the messages and input state  *)
(*        of the component, the messages its last render showed (and its   *)
(*        handlers closed over), the chat requests in flight, the          *)
(*        chatHistory item of localStorage, and a record of what was       *)
(*        submitted (sent, cleared)                                        *)
(***************************************************************************)
VARIABLES env, req, widget

vars == <<env, req, widget>>

NoCall == [active |-> FALSE]

NotCalled == [t |-> "notcalled", v |-> ""]

BaseContext ==
    [ shopName    |-> "Iris Essentials",
      website     |-> "https://irisessentials.com",
      policies    |-> [ shipping |-> "Standard UK Delivery (3-5 business days): FREE on orders over GBP50, otherwise GBP3.99. Express UK Delivery (1-2 business days): GBP6.99.",
                        returns  |-> "30-day return window from delivery date. Items must be unused and in original packaging.",
                        rewards  |-> "Earn 1 point for every GBP1 spent. 500 points = GBP5 reward." ],
      hasProducts |-> FALSE,
      products    |-> <<>> ]

IdleRequest ==
    [ pc             |-> "idle",
      message        |-> Undefined,
      context        |-> BaseContext,
      llm            |-> NoCall,
      llmResponse    |-> NotCalled,
      intent         |-> "none",
      collectionId   |-> 0,
      collectionName |-> "",
      collections    |-> <<>>,
      products       |-> <<>>,
      calls          |-> <<>>,
      inflight       |-> 0,
      responses      |-> <<>>,
      stages         |-> <<>>,
      startConfigured |-> FALSE,
      llmInvocations |-> 0,
      llmThrew       |-> FALSE,
      answerSeen     |-> [seen |-> FALSE, shape |-> "", builtFor |-> "", providerChanged |-> FALSE] ]

(***************************************************************************)
(* res.status(..).json(..), outbound calls.                                *)
(***************************************************************************)
Stage(r, st) == [r EXCEPT !.stages = Append(@, st)]

Respond(r, status, body) ==
    [ Stage(r, "Done") EXCEPT !.responses = Append(@, [status |-> status, body |-> body]),
                              !.pc = "done" ]

\* an outbound call is issued and the handler awaits it at nextpc
IssueCall(r, kind, purpose, nextpc) ==
    [ r EXCEPT !.calls = Append(@, [kind |-> kind, purpose |-> purpose, outcome |-> "pending"]),
               !.inflight = @ + 1,
               !.pc = nextpc ]

\* the awaited call settles
CompleteCall(r, outcome) ==
    [ r EXCEPT !.calls[Len(r.calls)].outcome = outcome,
               !.inflight = @ - 1 ]

(***************************************************************************)
(* The catch block of the chat handler and the errorHandler middleware.    *)
(***************************************************************************)
errorHandler(r, err) ==
    Respond(r, IF err.status # 0 THEN err.status ELSE 500,
            [error |-> [message |-> err.message,
                        status  |-> IF err.status # 0 THEN err.status ELSE 500]])

ChatCatch(r, error) ==
    IF error.hasResponse
    THEN Respond(r, IF error.status # 0 THEN error.status ELSE 500,
                 [error |-> [message |-> error.message,
                             status  |-> error.status,
                             type    |-> "ShopifyAPIError"]])
    ELSE errorHandler(r, [status |-> 0, message |-> error.message])

(***************************************************************************)
(* Rule-based path of the chat handler.                                    *)
(***************************************************************************)
\* the last match in place of the first
FindCollectionLast(collections, titleVocab) ==
    LET hits == { i \in 1..Len(collections) : RegexTestI(titleVocab, collections[i].title) }
    IN  IF hits = {} THEN [found |-> FALSE, id |-> 0, title |-> ""]
        ELSE LET last == CHOOSE i \in hits : \A j \in hits : i >= j
             IN  [found |-> TRUE, id |-> collections[last].id, title |-> collections[last].title]

\* collections.find(c => /.../i.test(c.title)): the first match, if any
FindCollection(collections, titleVocab) ==
    LET hits == { i \in 1..Len(collections) : RegexTestI(titleVocab, collections[i].title) }
    IN  IF hits = {} THEN [found |-> FALSE, id |-> 0, title |-> ""]
        ELSE LET first == CHOOSE i \in hits : \A j \in hits : i <= j
             IN  [found |-> TRUE, id |-> collections[first].id, title |-> collections[first].title]

\* the price of the first variant, whatever it parses to
ProductPriceFirstVariant(product) ==
    IF product.hasVariants /\ Len(product.variants) > 0 /\ Truthy(product.variants[1].price)
       /\ ~parseFloat(product.variants[1].price.v).nan
    THEN "GBP" \o toFixed2(parseFloat(product.variants[1].price.v))
    ELSE "Price not available"

\* the price shown for one product of a listing
ProductPrice(product) ==
    LET hits == IF product.hasVariants
                THEN { i \in 1..Len(product.variants) :
                         /\ Truthy(product.variants[i].price)
                         /\ IsPositive(parseFloat(product.variants[i].price.v)) }
                ELSE {}
        variantPrice ==
            IF hits = {} THEN "Price not available"
            ELSE LET first == CHOOSE i \in hits : \A j \in hits : i <= j
                 IN  "GBP" \o toFixed2(parseFloat(product.variants[first].price.v))
    IN  IF variantPrice = "Price not available"
           /\ Truthy(product.price) /\ IsPositive(parseFloat(product.price.v))
        THEN "GBP" \o toFixed2(parseFloat(product.price.v))
        ELSE variantPrice

RECURSIVE JoinLines(_)
JoinLines(lines) ==
    IF Len(lines) = 0 THEN ""
    ELSE IF Len(lines) = 1 THEN lines[1]
    ELSE lines[1] \o "\n" \o JoinLines(Tail(lines))

\* a listing cut to its first product
ProductListFirstOnly(products) ==
    "* " \o products[1].title \o ": " \o ProductPrice(products[1])

ProductList(products) ==
    JoinLines([i \in 1..Len(products) |->
                 "* " \o products[i].title \o ": " \o ProductPrice(products[i])])

\* ProductReply with one zero-result text for every case
ProductReplyStoreOnly(r, products) ==
    IF Len(products) = 0
    THEN "I couldn't find any products in the store. Please check back later."
    ELSE IF r.collectionId # 0
         THEN "Here are some products from our " \o r.collectionName \o " collection:\n\n"
              \o ProductList(products)
              \o "\n\nWould you like more information about any of these products?"
         ELSE "Here are some products from our store:\n\n"
              \o ProductList(products)
              \o "\n\nWould you like more information about any of these products?"

\* the reply of the product branch once the listing is resolved
ProductReply(r, products) ==
    IF Len(products) = 0
    THEN IF r.collectionId # 0
         THEN "I couldn't find any products in the " \o r.collectionName \o " collection. Please check back later."
         ELSE "I couldn't find any products in the store. Please check back later."
    ELSE IF r.collectionId # 0
         THEN "Here are some products from our " \o r.collectionName \o " collection:\n\n"
              \o ProductList(products)
              \o "\n\nWould you like more information about any of these products?"
         ELSE "Here are some products from our store:\n\n"
              \o ProductList(products)
              \o "\n\nWould you like more information about any of these products?"

\* The regular expressions of the handler on every message text of the
\* model, evaluated once
ChatTexts == { m.v : m \in { c \in ChatMessages : c.t = "string" } }

\* the product test for the LLM context taken as true for every message
TestsOfProductContextAlways(m) ==
    [ flags          |-> IntentFlags(m),
      productContext |-> TRUE,
      beauty         |-> RegexTestI(BeautyQueryVocab, m),
      kitchen        |-> RegexTestI(KitchenQueryVocab, m) ]

TestsOf(m) ==
    [ flags          |-> IntentFlags(m),
      productContext |-> RegexTestI(ProductVocab, m),
      beauty         |-> RegexTestI(BeautyQueryVocab, m),
      kitchen        |-> RegexTestI(KitchenQueryVocab, m) ]

ChatTests == [ m \in ChatTexts |-> TestsOf(m) ]

IntentTests == [ m \in IntentMessages |-> TestsOf(m) ]

MessageTests(m) == IF m \in ChatTexts THEN ChatTests[m] ELSE IntentTests[m]

\* RuleBased with the catalog branch entered on the product flag alone,
\* outside the else-if chain
RuleBasedProductFlag(r) ==
    LET m      == r.message.v
        intent == IntentDispatch(MessageTests(m).flags)
        r1     == [Stage(r, "FallbackNeeded") EXCEPT !.intent = intent]
    IN  IF ~MessageTests(m).flags.isProductQuery
        THEN Respond(r1, 200, [reply |-> Str(StaticReply(intent))])
        ELSE IF MessageTests(m).beauty \/ MessageTests(m).kitchen
             THEN IssueCall(r1, "custom_collections", "compose", "awaitCollections")
             ELSE IssueCall(r1, "products", "compose", "awaitProducts")

\* intent flags and dispatch, up to the response or the first catalog call
RuleBased(r) ==
    LET m      == r.message.v
        intent == IntentDispatch(MessageTests(m).flags)
        r1     == [Stage(r, "FallbackNeeded") EXCEPT !.intent = intent]
        beautyCollectionQuery  == MessageTests(m).beauty
        kitchenCollectionQuery == MessageTests(m).kitchen
    IN  IF intent # "product"
        THEN Respond(r1, 200, [reply |-> Str(StaticReply(intent))])
        ELSE IF beautyCollectionQuery \/ kitchenCollectionQuery
             THEN IssueCall(r1, "custom_collections", "compose", "awaitCollections")
             ELSE IssueCall(r1, "products", "compose", "awaitProducts")

\* after the collections lookup: pick the collection, issue the product lookup
AfterCollections(r, body) ==
    LET m           == r.message.v
        collections == IF body.present THEN body.list ELSE <<>>
        hit == IF MessageTests(m).beauty
               THEN FindCollection(collections, BeautyTitleVocab)
               ELSE IF MessageTests(m).kitchen
                    THEN FindCollection(collections, KitchenTitleVocab)
                    ELSE [found |-> FALSE, id |-> 0, title |-> ""]
        r0 == [r EXCEPT !.collections = collections]
        r1 == IF hit.found
              THEN [r0 EXCEPT !.collectionId = hit.id, !.collectionName = hit.title]
              ELSE r0
    IN  IF r1.collectionId # 0
        THEN IssueCall(r1, "collections/id/products", "compose", "awaitCollectionProducts")
        ELSE IssueCall(r1, "products", "compose", "awaitProducts")

\* AfterProducts that retries with the general listing when the collection
\* has no products
AfterProductsRetryGeneral(r, body) ==
    LET products == IF body.present THEN body.list ELSE <<>>
    IN  IF r.pc = "awaitCollectionProducts" /\ Len(products) = 0
        THEN IssueCall(r, "products", "compose", "awaitProducts")
        ELSE Respond([r EXCEPT !.products = products], 200,
                     [reply |-> Str(ProductReply(r, products))])

\* after the scoped or the general product lookup
AfterProducts(r, body) ==
    LET products == IF body.present THEN body.list ELSE <<>>
    IN  Respond([r EXCEPT !.products = products], 200,
                [reply |-> Str(ProductReply(r, products))])

(***************************************************************************)
(* callLLM.                                                                *)
(***************************************************************************)
\* the guard at the top of callLLM
LLMEnvSet(e) == Truthy(e.LLM_API_KEY) /\ Truthy(e.LLM_PROVIDER)

\* model || <default>
ModelOr(model, default) == IF Truthy(model) THEN model.v ELSE default

\* one endpoint for every Gemini model: the key always in the query string
GeminiEndpointQueryOnly(modelIdentifier, apiKey) ==
    [ url     |-> "https://generativelanguage.googleapis.com/v1beta/models/"
                  \o modelIdentifier \o ":generateContent?key=" \o apiKey,
      headers |-> { <<"Content-Type", "application/json">> } ]

\* geminiUrl and geminiHeaders: v1 with the key in a header for gemini-pro,
\* v1beta with the key in the query string for any other model
GeminiEndpoint(modelIdentifier, apiKey) ==
    IF modelIdentifier = "gemini-pro"
    THEN [ url     |-> "https://generativelanguage.googleapis.com/v1/models/"
                       \o modelIdentifier \o ":generateContent",
           headers |-> { <<"Content-Type", "application/json">>,
                         <<"x-goog-api-key", apiKey>> } ]
    ELSE [ url     |-> "https://generativelanguage.googleapis.com/v1beta/models/"
                       \o modelIdentifier \o ":generateContent?key=" \o apiKey,
           headers |-> { <<"Content-Type", "application/json">> } ]

\* BuildRequest with the OpenAI configuration as the branch for every name
\* that is neither anthropic nor gemini
BuildRequestElseOpenAI(provider, model, apiKey, context, userMessage) ==
    IF provider \notin {"anthropic", "gemini"}
    THEN [ supported |-> TRUE, method |-> "post",
           url     |-> "https://api.openai.com/v1/chat/completions",
           headers |-> { <<"Authorization", "Bearer " \o apiKey>>,
                         <<"Content-Type", "application/json">> },
           data    |-> [ model |-> ModelOr(model, "gpt-3.5-turbo"),
                         roles |-> <<"system", "user">>,
                         context |-> context, prompt |-> userMessage,
                         max_tokens |-> 500 ] ]
    ELSE IF provider = "anthropic"
    THEN [ supported |-> TRUE, method |-> "post",
           url     |-> "https://api.anthropic.com/v1/messages",
           headers |-> { <<"x-api-key", apiKey>>,
                         <<"Content-Type", "application/json">>,
                         <<"anthropic-version", "2023-06-01">> },
           data    |-> [ model |-> ModelOr(model, "claude-3-sonnet-20240229"),
                         roles |-> <<"user">>,
                         context |-> context, prompt |-> userMessage,
                         max_tokens |-> 500 ] ]
    ELSE IF provider = "gemini"
    THEN LET modelIdentifier == ModelOr(model, "gemini-pro")
             endpoint        == GeminiEndpoint(modelIdentifier, apiKey)
         IN  [ supported |-> TRUE, method |-> "post",
               url     |-> endpoint.url,
               headers |-> endpoint.headers,
               data    |-> [ roles |-> <<"user">>,
                             context |-> context, prompt |-> userMessage,
                             maxOutputTokens |-> 500 ] ]
    ELSE [ supported |-> FALSE ]

\* the Axios request configuration of one provider; supported is FALSE for
\* a provider name that is none of the three
BuildRequest(provider, model, apiKey, context, userMessage) ==
    IF provider = "openai"
    THEN [ supported |-> TRUE, method |-> "post",
           url     |-> "https://api.openai.com/v1/chat/completions",
           headers |-> { <<"Authorization", "Bearer " \o apiKey>>,
                         <<"Content-Type", "application/json">> },
           data    |-> [ model |-> ModelOr(model, "gpt-3.5-turbo"),
                         roles |-> <<"system", "user">>,
                         context |-> context, prompt |-> userMessage,
                         max_tokens |-> 500 ] ]
    ELSE IF provider = "anthropic"
    THEN [ supported |-> TRUE, method |-> "post",
           url     |-> "https://api.anthropic.com/v1/messages",
           headers |-> { <<"x-api-key", apiKey>>,
                         <<"Content-Type", "application/json">>,
                         <<"anthropic-version", "2023-06-01">> },
           data    |-> [ model |-> ModelOr(model, "claude-3-sonnet-20240229"),
                         roles |-> <<"user">>,
                         context |-> context, prompt |-> userMessage,
                         max_tokens |-> 500 ] ]
    ELSE IF provider = "gemini"
    THEN LET modelIdentifier == ModelOr(model, "gemini-pro")
             endpoint        == GeminiEndpoint(modelIdentifier, apiKey)
         IN  [ supported |-> TRUE, method |-> "post",
               url     |-> endpoint.url,
               headers |-> endpoint.headers,
               data    |-> [ roles |-> <<"user">>,
                             context |-> context, prompt |-> userMessage,
                             maxOutputTokens |-> 500 ] ]
    ELSE [ supported |-> FALSE ]

\* the provider whose service answers at a URL, hence the shape of its body
EndpointShape(url) ==
    IF Includes(url, "api.openai.com") THEN "openai"
    ELSE IF Includes(url, "api.anthropic.com") THEN "anthropic"
    ELSE IF Includes(url, "generativelanguage.googleapis.com") THEN "gemini"
    ELSE "unexpected"

\* how the awaited axios(requestConfig) can settle: rejected without a
\* response, rejected with a non-2xx response, or resolved with a body that
\* has the provider's shape (the reply field present or not) or another one
AxiosOutcomes(requestConfig) ==
    { [kind |-> "networkError", status |-> 0, data |-> [shape |-> "none", text |-> Undefined]] }
    \cup { [kind |-> "httpError", status |-> st, data |-> [shape |-> "none", text |-> Undefined]] :
             st \in {401} }
    \cup { [kind |-> "ok", status |-> 200,
            data |-> [shape |-> EndpointShape(requestConfig.url), text |-> t]] :
             t \in ReplyFieldValues }
    \cup { [kind |-> "ok", status |-> 200,
            data |-> [shape |-> "unexpected", text |-> Str(LLMAnswer)]] }

\* response.data?.choices?.[0]?.message?.content and its counterparts: the
\* optional chain of one provider finds nothing in a body of another shape
ExtractReply(provider, data) ==
    IF provider \in {"openai", "anthropic", "gemini"} /\ data.shape = provider
    THEN data.text
    ELSE IF provider \in {"openai", "anthropic", "gemini"} THEN Undefined
    ELSE Null

\* the settled call brought a body of one of the three providers' shapes
\* with a non-empty text at that provider's reply field
AnswerInBody(outcome) ==
    /\ outcome.kind = "ok"
    /\ outcome.data.shape \in {"openai", "anthropic", "gemini"}
    /\ Truthy(outcome.data.text)

\* a catch block that logs and rethrows
callLLMCatchRethrow(error) == [threw |-> TRUE, value |-> Null, error |-> error]

\* the catch block of callLLM: log and return null
callLLMCatch(error) == [threw |-> FALSE, value |-> Null, error |-> error]

\* callLLM reading the provider from process.env again after the await
callLLMSettleRereadProvider(llm, outcome) ==
    IF outcome.kind = "ok"
    THEN [threw |-> FALSE,
          value |-> ExtractReply(toLowerCase(env.LLM_PROVIDER.v), outcome.data),
          error |-> [hasResponse |-> FALSE, status |-> 0, message |-> ""]]
    ELSE callLLMCatch([hasResponse |-> outcome.kind = "httpError",
                       status |-> outcome.status,
                       message |-> "Request failed"])

\* callLLM from the settled axios call to its return
callLLMSettle(llm, outcome) ==
    IF outcome.kind = "ok"
    THEN [threw |-> FALSE, value |-> ExtractReply(llm.provider, outcome.data),
          error |-> [hasResponse |-> FALSE, status |-> 0, message |-> ""]]
    ELSE callLLMCatch([hasResponse |-> outcome.kind = "httpError",
                       status |-> outcome.status,
                       message |-> "Request failed"])

(***************************************************************************)
(* The chat handler around callLLM.                                        *)
(***************************************************************************)
\* the guard written with || in place of &&
HandlerConfiguredOr(e) == Truthy(e.LLM_API_KEY) \/ Truthy(e.LLM_PROVIDER)

\* the guard of the LLM branch of the chat handler
HandlerConfigured(e) == Truthy(e.LLM_API_KEY) /\ Truthy(e.LLM_PROVIDER)

\* the end of the if block of the LLM branch: its block-scoped constants
\* context and llmResponse go out of scope
LeaveLLMBlock(r) == [r EXCEPT !.context = BaseContext, !.llmResponse = NotCalled]

\* if (llmResponse !== null)
HasAnswerNotNull(llmResponse) == llmResponse.t # "null"

\* if (llmResponse)
HasAnswer(llmResponse) == Truthy(llmResponse)

\* the LLM text followed by the default rule-based text
LLMReplyBodyBlended(llmResponse) == [reply |-> Str(llmResponse.v \o "\n\n" \o DefaultReply)]

\* { reply: llmResponse }
LLMReplyBody(llmResponse) == [reply |-> llmResponse]

\* AfterLLM without the return in front of res.json: the handler answers
\* with the LLM text and runs on into the rule-based path
AfterLLMNoReturn(r, result) ==
    IF result.threw
    THEN ChatCatch([r EXCEPT !.llm = NoCall, !.llmThrew = TRUE], result.error)
    ELSE LET r1 == [r EXCEPT !.llm = NoCall, !.llmResponse = result.value]
         IN  IF HasAnswer(r1.llmResponse)
             THEN RuleBased(LeaveLLMBlock(
                      Respond(Stage(r1, "Answered"), 200, LLMReplyBody(r1.llmResponse))))
             ELSE RuleBased(LeaveLLMBlock(r1))

\* const llmResponse = await callLLM(..); if (llmResponse) return res.json(..)
AfterLLM(r, result) ==
    IF result.threw
    THEN ChatCatch([r EXCEPT !.llm = NoCall, !.llmThrew = TRUE], result.error)
    ELSE LET r1 == [r EXCEPT !.llm = NoCall, !.llmResponse = result.value]
         IN  IF HasAnswer(r1.llmResponse)
             THEN Respond(Stage(r1, "Answered"), 200, LLMReplyBody(r1.llmResponse))
             ELSE RuleBased(LeaveLLMBlock(r1))

\* the configuration as it was when the process started, whatever e holds
callLLMConfigAtStartup(e) ==
    [ provider |-> "openai", model |-> Undefined, apiKey |-> "sk-1" ]

\* const provider, model, apiKey of callLLM, read from process.env
callLLMConfig(e) ==
    [ provider |-> toLowerCase(e.LLM_PROVIDER.v),
      model    |-> e.LLM_MODEL,
      apiKey   |-> e.LLM_API_KEY.v ]

\* the call callLLM(message, context) up to its await (or its early return)
InvokeLLM(r, e) ==
    LET r1 == [Stage(r, "LLMAttempted") EXCEPT !.llmInvocations = @ + 1]
        early == [threw |-> FALSE, value |-> Null,
                  error |-> [hasResponse |-> FALSE, status |-> 0, message |-> ""]]
    IN  IF ~LLMEnvSet(e) THEN AfterLLM(r1, early)
        ELSE LET provider == callLLMConfig(e).provider
                 model    == callLLMConfig(e).model
                 apiKey   == callLLMConfig(e).apiKey
                 requestConfig == BuildRequest(provider, model, apiKey, r.context, r.message.v)
             IN  IF ~requestConfig.supported THEN AfterLLM(r1, early)
                 ELSE IssueCall([r1 EXCEPT !.llm = [ active |-> TRUE, provider |-> provider,
                                                    model |-> model, apiKey |-> apiKey,
                                                    requestConfig |-> requestConfig ]],
                                "llm", "llm", "awaitLLM")

\* one entry of context.products
ContextProduct(p) ==
    [ title       |-> p.title,
      price       |-> IF Len(p.variants) > 0 /\ Truthy(p.variants[1].price)
                      THEN p.variants[1].price.v ELSE "Price not available",
      description |-> IF p.body_html.t = "string" /\ StripTags(p.body_html.v) # ""
                      THEN StripTags(p.body_html.v) ELSE "No description" ]

\* response.body.products.map(..) throws a TypeError when products is
\* missing or a product has no variants array
ContextMapThrows(body) ==
    ~body.present \/ \E i \in 1..Len(body.list) : ~body.list[i].hasVariants

(***************************************************************************)
(* Actions.                                                                *)
(***************************************************************************)
\* POST /api/chat arrives: validation, then the LLM branch or the
\* rule-based path, up to the response or the first awaited call.  Requests
\* share nothing but env, so one request is followed from any env the
\* settings endpoint can have left
ChatStart(message) ==
    /\ req.pc = "idle"
    /\ LET r0 == [Stage(IdleRequest, "Start") EXCEPT !.message = message,
                         !.startConfigured = (Truthy(env.LLM_API_KEY) /\ Truthy(env.LLM_PROVIDER))]
       IN  req' = IF ~Truthy(message)
                  THEN Respond(r0, 400, [error |-> Str("Message is required")])
                  ELSE IF HandlerConfigured(env)
                       THEN IF MessageTests(message.v).productContext
                            THEN IssueCall(r0, "products", "context", "awaitContextProducts")
                            ELSE InvokeLLM(r0, env)
                       ELSE RuleBased(r0)
    /\ UNCHANGED <<env, widget>>

\* the catalog fetch for the LLM context settles; callLLM is invoked
ContextProductsReturn ==
    /\ req.pc = "awaitContextProducts"
    /\ \/ \E body \in ProductBodies :
            LET r1 == CompleteCall(req, "ok")
                r2 == IF ContextMapThrows(body) THEN r1
                      ELSE [r1 EXCEPT !.context.hasProducts = TRUE,
                                      !.context.products =
                                          [i \in 1..Len(body.list) |-> ContextProduct(body.list[i])]]
            IN  req' = InvokeLLM(r2, env)
       \/ \E error \in CatalogErrors :
            req' = InvokeLLM(CompleteCall(req, "error"), env)
    /\ UNCHANGED <<env, widget>>

\* the awaited axios call of callLLM settles; callLLM returns to the handler
LLMReturn ==
    /\ req.pc = "awaitLLM"
    /\ \E outcome \in AxiosOutcomes(req.llm.requestConfig) :
          LET r1 == CompleteCall(req, IF outcome.kind = "ok" THEN "ok" ELSE "error")
              r2 == IF AnswerInBody(outcome)
                    THEN [r1 EXCEPT !.answerSeen =
                             [ seen            |-> TRUE,
                               shape           |-> outcome.data.shape,
                               builtFor        |-> req.llm.provider,
                               providerChanged |->
                                   toLowerCase(env.LLM_PROVIDER.v) # req.llm.provider ]]
                    ELSE r1
          IN  req' = AfterLLM(r2, callLLMSettle(req.llm, outcome))
    /\ UNCHANGED <<env, widget>>

\* the collections lookup of the product branch settles
CollectionsReturn ==
    /\ req.pc = "awaitCollections"
    /\ \/ \E body \in CollectionBodies :
            req' = AfterCollections(CompleteCall(req, "ok"), body)
       \/ \E error \in CatalogErrors :
            req' = ChatCatch(CompleteCall(req, "error"), error)
    /\ UNCHANGED <<env, widget>>

\* the product lookup scoped to the collection settles
CollectionProductsReturn ==
    /\ req.pc = "awaitCollectionProducts"
    /\ \/ \E body \in ProductBodies :
            req' = AfterProducts(CompleteCall(req, "ok"), body)
       \/ \E error \in CatalogErrors :
            req' = ChatCatch(CompleteCall(req, "error"), error)
    /\ UNCHANGED <<env, widget>>

\* the general product lookup settles
ProductsReturn ==
    /\ req.pc = "awaitProducts"
    /\ \/ \E body \in ProductBodies :
            req' = AfterProducts(CompleteCall(req, "ok"), body)
       \/ \E error \in CatalogErrors :
            req' = ChatCatch(CompleteCall(req, "error"), error)
    /\ UNCHANGED <<env, widget>>

\* POST /api/settings: a field that is truthy replaces the variable; an
\* assignment to process.env stores the value converted to a string
Settings(body) ==
    /\ env' = [ LLM_PROVIDER |-> IF Truthy(body.llmProvider)
                                 THEN Str(StringOf(body.llmProvider))
                                 ELSE env.LLM_PROVIDER,
                LLM_API_KEY  |-> IF Truthy(body.llmApiKey)
                                 THEN Str(StringOf(body.llmApiKey))
                                 ELSE env.LLM_API_KEY,
                LLM_MODEL    |-> IF Truthy(body.llmModel)
                                 THEN Str(StringOf(body.llmModel))
                                 ELSE env.LLM_MODEL ]
    /\ UNCHANGED <<req, widget>>

(***************************************************************************)
(* The chat widget (Chatbot.js).  The component keeps messages and input  *)
(* in React state.  A handler reads the values of the render that created *)
(* it: sendMessage reads input and messages from its closure, while the   *)
(* updates written as functions are applied to the state as it is when    *)
(* they are processed.  An update made in a DOM event handler is rendered *)
(* before the next event is dispatched; an update made after an await is  *)
(* rendered when React schedules it, so an event can be handled in        *)
(* between (Render is a step of its own).                                  *)
(***************************************************************************)
MaxSubmissions == 2

WidgetInputs == {"", "  ", "hello", "where is my order"}

WidgetReplies == {LLMAnswer, DefaultReply}

WidgetErrorText == "Sorry, I encountered an error. Please try again later."

RECURSIVE trimStart(_)
trimStart(s) ==
    IF Len(s) > 0 /\ SubSeq(s, 1, 1) = " " THEN trimStart(SubSeq(s, 2, Len(s))) ELSE s

RECURSIVE trimEnd(_)
trimEnd(s) ==
    IF Len(s) > 0 /\ SubSeq(s, Len(s), Len(s)) = " " THEN trimEnd(SubSeq(s, 1, Len(s) - 1)) ELSE s

trim(s) == trimEnd(trimStart(s))

UserMessage(text) == [text |-> text, sender |-> "user", loading |-> FALSE, error |-> FALSE]

LoadingMessage == [text |-> "...", sender |-> "bot", loading |-> TRUE, error |-> FALSE]

ReplyMessage(text) == [text |-> text, sender |-> "bot", loading |-> FALSE, error |-> FALSE]

ErrorMessage == [text |-> WidgetErrorText, sender |-> "bot", loading |-> FALSE, error |-> TRUE]

NotLoading(msg) == ~msg.loading

WithoutLoading(prev) == SelectSeq(prev, NotLoading)

RemoveAt(seq, i) == SubSeq(seq, 1, i - 1) \o SubSeq(seq, i + 1, Len(seq))

NoHistory == [present |-> FALSE, items |-> <<>>]

Mounted(saveHistory) ==
    [ messages    |-> <<>>,
      rendered    |-> <<>>,
      input       |-> "",
      saveHistory |-> saveHistory,
      inflight    |-> <<>>,
      chatHistory |-> NoHistory,
      sent        |-> <<>>,
      cleared     |-> FALSE ]

\* onChange of the input field: setInput(e.target.value)
onChange(value) ==
    /\ value # widget.input
    /\ widget' = [widget EXCEPT !.input = value]
    /\ UNCHANGED <<env, req>>

\* sendMessage up to its await: the blank test, the user message put behind
\* the messages of the handler's render, the input cleared, the loading
\* placeholder appended, the request sent
sendMessage ==
    /\ Len(widget.sent) < MaxSubmissions
    /\ IF trim(widget.input) = ""
       THEN UNCHANGED widget
       ELSE LET userMessage == UserMessage(widget.input)
                set         == widget.rendered \o <<userMessage>>
                withLoading == Append(set, LoadingMessage)
            IN  widget' = [widget EXCEPT
                              !.messages = withLoading,
                              !.rendered = withLoading,
                              !.input    = "",
                              !.inflight = Append(@, [ message     |-> widget.input,
                                                       messages    |-> widget.rendered,
                                                       saveHistory |-> widget.saveHistory ]),
                              !.sent     = Append(@, widget.input)]
    /\ UNCHANGED <<env, req>>

\* sendMessage after its await, the request answered: the placeholders
\* filtered out, the reply appended, the history saved
sendMessageResolved ==
    /\ \E i \in 1..Len(widget.inflight), reply \in WidgetReplies :
          LET call == widget.inflight[i]
              bot  == ReplyMessage(reply)
          IN  widget' = [widget EXCEPT
                            !.messages    = Append(WithoutLoading(@), bot),
                            !.inflight    = RemoveAt(@, i),
                            !.chatHistory = IF call.saveHistory
                                            THEN [ present |-> TRUE,
                                                   items   |-> call.messages \o
                                                               <<UserMessage(call.message), bot>> ]
                                            ELSE @]
    /\ UNCHANGED <<env, req>>

\* sendMessage after its await, the request failed: the catch block
sendMessageRejected ==
    /\ \E i \in 1..Len(widget.inflight) :
          widget' = [widget EXCEPT
                        !.messages = Append(WithoutLoading(@), ErrorMessage),
                        !.inflight = RemoveAt(@, i)]
    /\ UNCHANGED <<env, req>>

\* the component function run again: the messages shown, and closed over by
\* the handlers, are the state's
Render ==
    /\ widget.rendered # widget.messages
    /\ widget' = [widget EXCEPT !.rendered = widget.messages]
    /\ UNCHANGED <<env, req>>

clearHistory ==
    /\ widget' = [widget EXCEPT
                     !.messages    = <<>>,
                     !.rendered    = <<>>,
                     !.chatHistory = NoHistory,
                     !.cleared     = TRUE]
    /\ UNCHANGED <<env, req>>

Init ==
    /\ env \in EnvValues
    /\ req = IdleRequest
    /\ widget = Mounted(TRUE)

Next ==
    \/ \E message \in ChatMessages : ChatStart(message)
    \/ ContextProductsReturn
    \/ LLMReturn
    \/ CollectionsReturn
    \/ CollectionProductsReturn
    \/ ProductsReturn
    \/ \E body \in SettingsBodies : Settings(body)

Spec == Init /\ [][Next]_vars

(***************************************************************************)
(* The rule-based path alone: no provider is configured and the settings   *)
(* endpoint is not used; the message is drawn from IntentMessages.         *)
(***************************************************************************)
InitIntent ==
    /\ env = [LLM_PROVIDER |-> Undefined, LLM_API_KEY |-> Undefined, LLM_MODEL |-> Undefined]
    /\ \E m \in IntentMessages : req = [IdleRequest EXCEPT !.message = Str(m)]
    /\ widget = Mounted(TRUE)

NextIntent ==
    \/ ChatStart(req.message)
    \/ CollectionsReturn
    \/ CollectionProductsReturn
    \/ ProductsReturn

SpecIntent == InitIntent /\ [][NextIntent]_vars

(***************************************************************************)
(* The process started without any LLM variable in its environment: every  *)
(* provider configuration a request meets was put there by the settings    *)
(* endpoint.                                                               *)
(***************************************************************************)
InitUnconfigured ==
    /\ env = [LLM_PROVIDER |-> Undefined, LLM_API_KEY |-> Undefined, LLM_MODEL |-> Undefined]
    /\ req = IdleRequest
    /\ widget = Mounted(TRUE)

SpecSettings == InitUnconfigured /\ [][Next]_vars

(***************************************************************************)
(* Every outbound call settles: the promise the handler awaits is resolved *)
(* or rejected, and the event loop then runs the handler's continuation.   *)
(* The settings endpoint is used with bodies that set one field at most,   *)
(* to a string.                                                            *)
(***************************************************************************)
LiveSettingsBodies ==
    { body \in SettingsBodies :
        /\ Cardinality({ f \in {"llmProvider", "llmApiKey", "llmModel"} :
                            body[f].t # "undefined" }) <= 1
        /\ \A f \in {"llmProvider", "llmApiKey", "llmModel"} : body[f].t # "array" }

NextLive ==
    \/ \E message \in ChatMessages : ChatStart(message)
    \/ ContextProductsReturn
    \/ LLMReturn
    \/ CollectionsReturn
    \/ CollectionProductsReturn
    \/ ProductsReturn
    \/ \E body \in LiveSettingsBodies : Settings(body)

SpecLive ==
    /\ Init
    /\ [][NextLive]_vars
    /\ WF_vars(ContextProductsReturn)
    /\ WF_vars(LLMReturn)
    /\ WF_vars(CollectionsReturn)
    /\ WF_vars(CollectionProductsReturn)
    /\ WF_vars(ProductsReturn)

(***************************************************************************)
(* The widget alone: the shopper types, submits and clears, the requests   *)
(* in flight are answered or fail in any order, and React renders.  The    *)
(* saveHistory setting is the one found in localStorage at mount.          *)
(***************************************************************************)
InitWidget ==
    /\ env = [LLM_PROVIDER |-> Undefined, LLM_API_KEY |-> Undefined, LLM_MODEL |-> Undefined]
    /\ req = IdleRequest
    /\ \E saveHistory \in BOOLEAN : widget = Mounted(saveHistory)

NextWidget ==
    \/ \E value \in WidgetInputs : onChange(value)
    \/ sendMessage
    \/ sendMessageResolved
    \/ sendMessageRejected
    \/ Render
    \/ clearHistory

SpecWidget == InitWidget /\ [][NextWidget]_vars

(***************************************************************************)
(* Properties.                                                             *)
(***************************************************************************)
CallIndices(r) == 1..Len(r.calls)

LLMCallCount(r) == Cardinality({ i \in CallIndices(r) : r.calls[i].kind = "llm" })

CatalogCallCount(r) == Cardinality({ i \in CallIndices(r) : r.calls[i].kind # "llm" })

CallFailed(r, purpose) ==
    \E i \in CallIndices(r) : r.calls[i].purpose = purpose /\ r.calls[i].outcome = "error"

IsBlank(message) ==
    message.t # "string" \/ \A i \in 1..Len(message.v) : IsWhiteSpace(CharAt(message.v, i))

IsReplyBody(body) == DOMAIN body = {"reply"} /\ body.reply.t = "string"

IsErrorBody(body) == DOMAIN body = {"error"} /\ {"message", "status"} \subseteq DOMAIN body.error

\* the one response of a finished request is a text reply
AnsweredWithText(r) ==
    /\ Len(r.responses) = 1
    /\ r.responses[1].status = 200
    /\ IsReplyBody(r.responses[1].body)
    /\ Truthy(r.responses[1].body.reply)

\* C1: a request whose message is empty or only white space is answered with
\* status 400 and issues no outbound call (neither catalog nor LLM)
C1_BlankMessageRejected ==
    (req.pc # "idle" /\ IsBlank(req.message)) =>
        /\ req.pc = "done"
        /\ Len(req.responses) = 1
        /\ req.responses[1].status = 400
        /\ req.calls = <<>>

\* C2: a request with a non-empty message handled while no provider is
\* configured goes straight to the intent classifier: callLLM is not invoked
\* and no LLM HTTP call is issued
C2_UnconfiguredTakesRuleBasedPath ==
    (req.pc # "idle" /\ Truthy(req.message) /\ ~req.startConfigured) =>
        /\ LLMCallCount(req) = 0
        /\ req.llmInvocations = 0
        /\ "LLMAttempted" \notin { req.stages[i] : i \in 1..Len(req.stages) }
        /\ "FallbackNeeded" \in { req.stages[i] : i \in 1..Len(req.stages) }
        /\ req.intent # "none"

C2_Witness ==
    /\ req.pc = "done"
    /\ Truthy(req.message)
    /\ ~req.startConfigured
    /\ AnsweredWithText(req)
    /\ Truthy(env.LLM_API_KEY) /\ Truthy(env.LLM_PROVIDER)

\* C3: when a provider is configured and callLLM has returned without an
\* answer, the handler has gone on to the intent classifier and the
\* rule-based composer; no response carries an empty or absent reply
C3_AbsentAnswerFallsBack ==
    LET stages == { req.stages[i] : i \in 1..Len(req.stages) }
    IN  /\ \A i \in 1..Len(req.responses) :
              "reply" \in DOMAIN req.responses[i].body => Truthy(req.responses[i].body.reply)
        /\ (req.startConfigured /\ "LLMAttempted" \in stages /\ req.pc # "awaitLLM"
              /\ "Answered" \notin stages)
             => ("FallbackNeeded" \in stages /\ req.intent # "none")

C3_Witness ==
    /\ req.pc = "done"
    /\ req.startConfigured
    /\ \E i \in CallIndices(req) : req.calls[i].kind = "llm" /\ req.calls[i].outcome = "ok"
    /\ req.intent = "shipping"
    /\ req.responses = <<[status |-> 200, body |-> [reply |-> Str(ShippingReply)]]>>

\* C4: when callLLM returns a reply, the request ends with exactly that
\* reply: no intent classification, no rule-based text, no catalog call
\* after the LLM call
C4_LLMReplyIsFinal ==
    Truthy(req.llmResponse) =>
        /\ req.pc = "done"
        /\ req.responses = <<[status |-> 200, body |-> [reply |-> Str(LLMAnswer)]]>>
        /\ req.llmResponse = Str(LLMAnswer)
        /\ req.intent = "none"
        /\ "FallbackNeeded" \notin { req.stages[i] : i \in 1..Len(req.stages) }
        /\ req.calls[Len(req.calls)].kind = "llm"

C4_Witness ==
    /\ req.pc = "done"
    /\ Truthy(req.llmResponse)
    /\ CatalogCallCount(req) = 1
    /\ req.responses = <<[status |-> 200, body |-> [reply |-> Str(LLMAnswer)]]>>

\* C5 as stated: at most one LLM call and at most two catalog calls per
\* request, never two outbound calls in flight
C5_AtMostTwoCatalogCalls ==
    /\ LLMCallCount(req) <= 1
    /\ CatalogCallCount(req) <= 2
    /\ req.inflight <= 1

\* C5 amended: at most one LLM call and at most three catalog calls per
\* request (context snapshot, collections lookup, scoped or general product
\* lookup), one after the other: a call is issued only when every earlier
\* one has settled
C5_AtMostThreeCatalogCalls ==
    /\ LLMCallCount(req) <= 1
    /\ CatalogCallCount(req) <= 3
    /\ req.inflight <= 1
    /\ \A i \in CallIndices(req) : i < Len(req.calls) => req.calls[i].outcome # "pending"
    /\ req.inflight = Cardinality({ i \in CallIndices(req) : req.calls[i].outcome = "pending" })

C5_Witness ==
    /\ req.pc = "done"
    /\ LLMCallCount(req) = 1
    /\ CatalogCallCount(req) = 3
    /\ req.calls[1].purpose = "context"
    /\ req.calls[4].kind = "collections/id/products"

\* C6: callLLM never throws: whatever the provider outcome, it makes at most
\* one HTTP attempt per invocation and returns a text or an absent value; a
\* failed attempt gives no answer
C6_CallLLMNeverThrows ==
    /\ ~req.llmThrew
    /\ LLMCallCount(req) <= req.llmInvocations
    /\ req.llmInvocations <= 1
    /\ req.llmResponse.t \in {"notcalled", "null", "undefined", "string"}
    /\ CallFailed(req, "llm") =>
          (req.llmResponse.t = "notcalled"
             /\ "Answered" \notin { req.stages[i] : i \in 1..Len(req.stages) })

C6_Witness ==
    /\ CallFailed(req, "llm")
    /\ req.pc = "done"
    /\ AnsweredWithText(req)

\* C7: on the rule-based path the branch taken is the first of FAQ, Refund,
\* Shipping, Privacy, Terms, Contact, Social, Rewards, Specific-product,
\* Generic-product whose vocabulary the message matches without regard to
\* case (Default when none matches), and the reply is that intent's
PriorityOrder ==
    << "faq", "refund", "shipping", "privacy", "terms", "contact", "social",
       "rewards", "specificProduct", "product" >>

VocabOf(intent) ==
    CASE intent = "faq"             -> FaqVocab
      [] intent = "refund"          -> RefundVocab
      [] intent = "shipping"        -> ShippingVocab
      [] intent = "privacy"         -> PrivacyVocab
      [] intent = "terms"           -> TermsVocab
      [] intent = "contact"         -> ContactVocab
      [] intent = "social"          -> SocialMediaVocab
      [] intent = "rewards"         -> RewardsVocab
      [] intent = "specificProduct" -> SpecificProductVocab
      [] intent = "product"         -> ProductVocab

MatchesVocab(intent, m) ==
    \E w \in VocabOf(intent) : Includes(toLowerCase(m), toLowerCase(w))

HighestPriorityIntent(m) ==
    LET hits == { i \in 1..Len(PriorityOrder) : MatchesVocab(PriorityOrder[i], m) }
    IN  IF hits = {} THEN "default"
        ELSE PriorityOrder[CHOOSE i \in hits : \A j \in hits : i <= j]

ExpectedIntent == [ m \in IntentMessages |-> HighestPriorityIntent(m) ]

ExpectedText ==
    [ faq |-> FaqReply, refund |-> RefundReply, shipping |-> ShippingReply,
      privacy |-> PrivacyReply, terms |-> TermsReply, contact |-> ContactReply,
      social |-> SocialMediaReply, rewards |-> RewardsReply,
      specificProduct |-> SpecificProductReply, default |-> DefaultReply ]

C7_FirstMatchingIntentWins ==
    req.pc # "idle" =>
        LET expected == ExpectedIntent[req.message.v]
        IN  /\ req.intent = expected
            /\ expected # "product" =>
                  /\ req.pc = "done"
                  /\ req.calls = <<>>
                  /\ req.responses =
                        <<[status |-> 200, body |-> [reply |-> Str(ExpectedText[expected])]]>>
            /\ expected = "product" =>
                  /\ req.calls # <<>>
                  /\ \A i \in 1..Len(req.responses) :
                        \A t \in { ExpectedText[k] : k \in DOMAIN ExpectedText } :
                            req.responses[i].body # [reply |-> Str(t)]

C7_Witness ==
    /\ req.pc = "done"
    /\ MatchesVocab("refund", req.message.v)
    /\ MatchesVocab("product", req.message.v)
    /\ req.responses = <<[status |-> 200, body |-> [reply |-> Str(RefundReply)]]>>

\* C8: when a catalog call of the response composer fails, the request is
\* still answered with a text reply and not with an error response
C8_ComposerCatalogFailureAnswered ==
    (req.pc = "done" /\ CallFailed(req, "compose")) => AnsweredWithText(req)

\* C9: every response is { reply: string } or { error: { message, status } },
\* with status 400 for an empty message, the upstream status for a catalog
\* error that carries one, and 500 otherwise
C9_ResponseShape ==
    \A i \in 1..Len(req.responses) :
        LET resp == req.responses[i]
        IN  \/ resp.status = 200 /\ IsReplyBody(resp.body)
            \/ /\ IsErrorBody(resp.body)
               /\ resp.body.error.status = resp.status
               /\ IF ~Truthy(req.message) THEN resp.status = 400
                  ELSE resp.status \in {404, 500, 503}

\* C10: when the catalog fetch for the LLM context fails, the context has no
\* products snapshot and keeps the policies, callLLM is invoked exactly
\* once, and the request is answered with a reply
C10_ContextFetchFailureTolerated ==
    CallFailed(req, "context") =>
        /\ req.llmInvocations = 1
        /\ req.pc = "awaitLLM" =>
              /\ ~req.llm.requestConfig.data.context.hasProducts
              /\ req.llm.requestConfig.data.context.policies = BaseContext.policies
        /\ req.pc = "done" => AnsweredWithText(req)

\* C11: a request built for the gemini provider with model "gemini-pro" (or
\* with no model configured, so that the default applies) carries the API key
\* in a header and not in the URL; built for any other model it carries the
\* key as the URL query parameter "key" and in no header
KeyInHeader(requestConfig, apiKey) ==
    \E h \in requestConfig.headers : Includes(h[2], apiKey)

KeyInUrl(requestConfig, apiKey) == Includes(requestConfig.url, apiKey)

C11_GeminiKeyPlacement ==
    (req.pc = "awaitLLM" /\ req.llm.provider = "gemini") =>
        LET requestConfig == req.llm.requestConfig
            apiKey        == req.llm.apiKey
        IN  IF req.llm.model = Str("gemini-pro") \/ ~Truthy(req.llm.model)
            THEN /\ <<"x-goog-api-key", apiKey>> \in requestConfig.headers
                 /\ ~KeyInUrl(requestConfig, apiKey)
            ELSE /\ Includes(requestConfig.url, "?key=" \o apiKey)
                 /\ ~KeyInHeader(requestConfig, apiKey)

C11_Witness ==
    /\ req.pc = "awaitLLM"
    /\ req.llm.provider = "gemini"
    /\ req.llm.model = Undefined
    /\ req.llm.apiKey = "sk-2"
    /\ <<"x-goog-api-key", "sk-2">> \in req.llm.requestConfig.headers
    /\ req.llm.requestConfig.url =
          "https://generativelanguage.googleapis.com/v1/models/gemini-pro:generateContent"

\* C12: in a product listing reply each product is shown with the price of
\* its first variant whose price parses to a number above zero, as the
\* pound sign and two decimals ("12.5" gives "GBP12.50"); failing that with
\* its top-level price when that is above zero; failing that with "Price
\* not available" (so for a product without variants and top-level price)
PriceByClaim ==
    [ title \in {"Gold Eye Mask", "Whisk", "Serum", "Gift Card", "Candle", "Spoon"} |->
        CASE title = "Gold Eye Mask" -> "GBP12.50"
          [] title = "Whisk"         -> "Price not available"
          [] title = "Serum"         -> "GBP19.99"
          [] title = "Gift Card"     -> "GBP7.00"
          [] title = "Candle"        -> "Price not available"
          [] title = "Spoon"         -> "GBP3.50" ]

\* the finished request has answered with a listing of r.products
ListingAnswered(r) ==
    /\ r.pc = "done"
    /\ r.intent = "product"
    /\ Len(r.products) > 0
    /\ AnsweredWithText(r)

C12_ListingPrices ==
    ListingAnswered(req) =>
        \A i \in 1..Len(req.products) :
            Includes(req.responses[1].body.reply.v,
                     "\n* " \o req.products[i].title \o ": "
                        \o PriceByClaim[req.products[i].title] \o "\n")

C12_Witness ==
    /\ ListingAnswered(req)
    /\ req.products = <<EyeMask, GiftCard>>
    /\ Includes(req.responses[1].body.reply.v,
                "\n\n* Gold Eye Mask: GBP12.50\n* Gift Card: GBP7.00\n\n")

\* the collection qualifiers of every message text of the model, and the
\* kinds of the catalog calls the rule-based path has issued
QualifierOf ==
    [ m \in ChatTexts |->
        [ beauty  |-> \E w \in BeautyQueryVocab : Includes(toLowerCase(m), w),
          kitchen |-> \E w \in KitchenQueryVocab : Includes(toLowerCase(m), w) ] ]

ComposeKinds(r) ==
    { r.calls[i].kind : i \in { j \in CallIndices(r) : r.calls[j].purpose = "compose" } }

CollectionsAnswered(r) ==
    \E i \in CallIndices(r) :
        r.calls[i].kind = "custom_collections" /\ r.calls[i].outcome = "ok"

HasKitchenCollection(collections) ==
    \E i \in 1..Len(collections) : Includes(toLowerCase(collections[i].title), "kitchen")

TitlesListed(r) ==
    \A i \in 1..Len(r.products) :
        Includes(r.responses[1].body.reply.v, "\n* " \o r.products[i].title \o ": ")

\* C13 as stated: for a generic-product message with a kitchen qualifier on
\* the rule-based path, when the catalog returns a collection whose title
\* matches the kitchen vocabulary, the rule-based path never requests the
\* general product listing, and the reply to a non-empty listing has a line
\* "* <title>" for every returned product
C13_KitchenQualifierScoped ==
    (/\ req.intent = "product"
     /\ QualifierOf[req.message.v].kitchen
     /\ CollectionsAnswered(req)
     /\ HasKitchenCollection(req.collections)) =>
        /\ "products" \notin ComposeKinds(req)
        /\ ListingAnswered(req) => TitlesListed(req)

\* C13 amended: the same for a message with a kitchen qualifier and no beauty
\* qualifier (a beauty qualifier takes precedence: only a beauty collection
\* is then looked for)
C13_KitchenOnlyQualifierScoped ==
    (/\ req.intent = "product"
     /\ QualifierOf[req.message.v].kitchen
     /\ ~QualifierOf[req.message.v].beauty
     /\ CollectionsAnswered(req)
     /\ HasKitchenCollection(req.collections)) =>
        /\ "products" \notin ComposeKinds(req)
        /\ req.pc \in {"awaitCollectionProducts", "done"}
        /\ ListingAnswered(req) => TitlesListed(req)

C13_Witness ==
    /\ ListingAnswered(req)
    /\ req.message = Str("show me your kitchen products")
    /\ req.collectionName = "Kitchen Essentials"
    /\ req.products = <<Serum, Whisk>>
    /\ ComposeKinds(req) = {"custom_collections", "collections/id/products"}
    /\ Includes(req.responses[1].body.reply.v, "\n* Serum: ")
    /\ Includes(req.responses[1].body.reply.v, "\n* Whisk: ")

\* C14: when callLLM is invoked while an API key is set and the provider
\* name, lower-cased, is none of openai, anthropic, gemini, it returns
\* without issuing an HTTP call to a provider, the handler goes on to the
\* rule-based path in the same step, and no provider call follows
SupportedProviders == {"openai", "anthropic", "gemini"}

StagesOf(r) == { r.stages[i] : i \in 1..Len(r.stages) }

C14_UnsupportedProviderNoCall ==
    [][ /\ ( /\ req'.llmInvocations = req.llmInvocations + 1
             /\ Truthy(env.LLM_API_KEY)
             /\ Truthy(env.LLM_PROVIDER)
             /\ toLowerCase(env.LLM_PROVIDER.v) \notin SupportedProviders )
           => ( /\ LLMCallCount(req') = 0
                /\ req'.pc # "awaitLLM"
                /\ "FallbackNeeded" \in StagesOf(req')
                /\ req'.intent # "none" )
        /\ (req.llmInvocations = 1 /\ LLMCallCount(req) = 0) => LLMCallCount(req') = 0
      ]_vars

C14_Witness ==
    /\ req.pc = "done"
    /\ req.startConfigured
    /\ req.llmInvocations = 1
    /\ LLMCallCount(req) = 0
    /\ req.intent = "default"
    /\ req.responses = <<[status |-> 200, body |-> [reply |-> Str(DefaultReply)]]>>

\* C15: the handler and callLLM read provider, key and model from
\* process.env at the moment they use them: a request that starts takes the
\* LLM branch exactly when key and provider are set at that moment, and the
\* provider request callLLM builds carries the provider, key and model that
\* process.env holds at that moment, that is, what the settings updates
\* made so far have left in place
ModelSent(requestConfig) ==
    IF EndpointShape(requestConfig.url) = "gemini"
    THEN CHOOSE m \in ModelNames :
            Includes(requestConfig.url, "/models/" \o m \o ":generateContent")
    ELSE requestConfig.data.model

ModelConfigured(e, provider) ==
    IF Truthy(e.LLM_MODEL) THEN e.LLM_MODEL.v
    ELSE CASE provider = "openai"    -> "gpt-3.5-turbo"
           [] provider = "anthropic" -> "claude-3-sonnet-20240229"
           [] provider = "gemini"    -> "gemini-pro"

C15_ConfigurationReadPerCall ==
    [][ /\ (req.pc = "idle" /\ req'.pc # "idle" /\ Truthy(req'.message))
           => ( ("LLMAttempted" \in StagesOf(req') \/ req'.pc = "awaitContextProducts")
                  <=> (Truthy(env.LLM_API_KEY) /\ Truthy(env.LLM_PROVIDER)) )
        /\ ( /\ req'.llmInvocations = req.llmInvocations + 1
             /\ Truthy(env.LLM_API_KEY)
             /\ Truthy(env.LLM_PROVIDER)
             /\ toLowerCase(env.LLM_PROVIDER.v) \in SupportedProviders )
           => LET requestConfig == req'.llm.requestConfig
                  provider      == toLowerCase(env.LLM_PROVIDER.v)
              IN  /\ req'.pc = "awaitLLM"
                  /\ EndpointShape(requestConfig.url) = provider
                  /\ \/ KeyInHeader(requestConfig, env.LLM_API_KEY.v)
                     \/ KeyInUrl(requestConfig, env.LLM_API_KEY.v)
                  /\ \A k \in ApiKeys \ {env.LLM_API_KEY.v} :
                        ~KeyInHeader(requestConfig, k) /\ ~KeyInUrl(requestConfig, k)
                  /\ ModelSent(requestConfig) = ModelConfigured(env, provider)
      ]_vars

C15_Witness ==
    /\ req.pc = "awaitLLM"
    /\ req.calls = <<[kind |-> "llm", purpose |-> "llm", outcome |-> "pending"]>>
    /\ env = [LLM_PROVIDER |-> Str("Anthropic"), LLM_API_KEY |-> Str("sk-2"),
              LLM_MODEL |-> Str("gemini-1.5-pro")]
    /\ req.llm.requestConfig.url = "https://api.anthropic.com/v1/messages"
    /\ <<"x-api-key", "sk-2">> \in req.llm.requestConfig.headers
    /\ req.llm.requestConfig.data.model = "gemini-1.5-pro"

\* the collection a request targets: the first collection of the lookup's
\* answer whose title contains the word of the message's qualifier (beauty
\* before kitchen)
TargetedCollection(r) ==
    LET q    == QualifierOf[r.message.v]
        word == IF q.beauty THEN "beauty" ELSE IF q.kitchen THEN "kitchen" ELSE "-"
        hits == { i \in 1..Len(r.collections) :
                    Includes(toLowerCase(r.collections[i].title), word) }
    IN  IF hits = {} \/ ~CollectionsAnswered(r) THEN [found |-> FALSE, id |-> 0, title |-> ""]
        ELSE LET first == CHOOSE i \in hits : \A j \in hits : i <= j
             IN  [found |-> TRUE, id |-> r.collections[first].id,
                  title |-> r.collections[first].title]

\* the product lookup of the rule-based path has returned an empty listing
ZeroResult(r) ==
    /\ r.pc = "done"
    /\ r.intent = "product"
    /\ r.calls[Len(r.calls)].kind \in {"products", "collections/id/products"}
    /\ r.calls[Len(r.calls)].outcome = "ok"
    /\ r.products = <<>>

\* C16: on the generic-product path an empty listing is answered with a
\* no-products message and no product list: the message names the
\* collection exactly when a collection was targeted and found, and is the
\* "no products in the store" message otherwise
C16_ZeroResultMessage ==
    ZeroResult(req) =>
        LET target == TargetedCollection(req)
            reply  == req.responses[1].body.reply.v
        IN  /\ AnsweredWithText(req)
            /\ target.found =>
                  reply = "I couldn't find any products in the " \o target.title
                             \o " collection. Please check back later."
            /\ ~target.found =>
                  reply = "I couldn't find any products in the store. Please check back later."
            /\ ~Includes(reply, "* ")

C16_Witness ==
    /\ ZeroResult(req)
    /\ req.message = Str("beauty items for baking")
    /\ TargetedCollection(req).found
    /\ req.responses[1].body.reply =
          Str("I couldn't find any products in the Beauty Essentials collection. Please check back later.")

\* the kinds of the catalog calls of the rule-based path, in issue order
ComposeKindSeq(r) ==
    LET compose == SelectSeq(r.calls, LAMBDA c : c.purpose = "compose")
    IN  [ i \in 1..Len(compose) |-> compose[i].kind ]

\* C17: on the generic-product path the collections lookup is issued only
\* for a message with a beauty or kitchen qualifier; once it has answered,
\* exactly one product lookup follows: scoped to the first collection with
\* a matching title when there is one, general otherwise; without a
\* qualifier the one catalog call is the general lookup; the scoped and the
\* general lookup are never both issued
C17_CollectionLookupOrder ==
    req.intent = "product" =>
        LET kinds     == ComposeKindSeq(req)
            q         == QualifierOf[req.message.v]
            qualified == q.beauty \/ q.kitchen
            target    == TargetedCollection(req)
        IN  /\ Len(kinds) \in {1, 2}
            /\ kinds[1] = IF qualified THEN "custom_collections" ELSE "products"
            /\ ~qualified => kinds = <<"products">>
            /\ (qualified /\ ~CollectionsAnswered(req)) => kinds = <<"custom_collections">>
            /\ (qualified /\ CollectionsAnswered(req)) =>
                  /\ kinds = << "custom_collections",
                                IF target.found THEN "collections/id/products" ELSE "products" >>
                  /\ req.collectionId = target.id
            /\ ~({"products", "collections/id/products"} \subseteq ComposeKinds(req))

C17_Witness ==
    /\ req.pc = "done"
    /\ req.intent = "product"
    /\ req.collections = << Collection(11, "Summer Sale"), Collection(12, "Kitchen Essentials"),
                            Collection(13, "KITCHEN tools") >>
    /\ req.collectionId = 12
    /\ ComposeKindSeq(req) = <<"custom_collections", "collections/id/products">>
    /\ AnsweredWithText(req)

\* C18: on the rule-based path every intent other than Generic-product
\* answers at once with its fixed text and issues no catalog call: the only
\* catalog call such a request can have made is the one for the LLM context,
\* and the reply does not depend on how that call went
C18_StaticIntentsIgnoreCatalog ==
    (req.intent \notin {"none", "product"}) =>
        /\ req.pc = "done"
        /\ req.responses =
              <<[status |-> 200, body |-> [reply |-> Str(ExpectedText[req.intent])]]>>
        /\ ComposeKinds(req) = {}
        /\ \A i \in CallIndices(req) : req.calls[i].purpose \in {"context", "llm"}
        /\ ~req.startConfigured => req.calls = <<>>

C18_Witness ==
    /\ req.pc = "done"
    /\ req.intent = "specificProduct"
    /\ CallFailed(req, "context")
    /\ req.responses = <<[status |-> 200, body |-> [reply |-> Str(SpecificProductReply)]]>>

\* whether each message text of the model matches the product vocabulary
ProductMatch == [ m \in ChatTexts |-> MatchesVocab("product", m) ]

\* C19: the catalog is asked for a products snapshot for the LLM context
\* only for a message that matches the product vocabulary, and only then
\* can the context handed to callLLM hold products; for any other message
\* the LLM call is the first outbound call and the context holds the shop
\* identity and the policy texts and nothing else
C19_SnapshotOnlyForProductMessages ==
    /\ (\E i \in CallIndices(req) : req.calls[i].purpose = "context")
          => ProductMatch[req.message.v]
    /\ req.pc = "awaitLLM" =>
          LET context == req.llm.requestConfig.data.context
          IN  /\ context.hasProducts =>
                    /\ ProductMatch[req.message.v]
                    /\ req.calls[1] = [kind |-> "products", purpose |-> "context", outcome |-> "ok"]
              /\ ~ProductMatch[req.message.v] =>
                    /\ req.calls = <<[kind |-> "llm", purpose |-> "llm", outcome |-> "pending"]>>
                    /\ ~context.hasProducts
                    /\ context.products = <<>>
                    /\ context.shopName = "Iris Essentials"
                    /\ context.website = "https://irisessentials.com"
                    /\ DOMAIN context.policies = {"shipping", "returns", "rewards"}

C19_Witness ==
    /\ req.pc = "awaitLLM"
    /\ req.message = Str("What are your shipping rates?")
    /\ req.calls = <<[kind |-> "llm", purpose |-> "llm", outcome |-> "pending"]>>
    /\ ~req.llm.requestConfig.data.context.hasProducts
    /\ req.llm.requestConfig.data.prompt = "What are your shipping rates?"

\* C20: a request passes through Start, LLMAttempted, Answered or
\* FallbackNeeded, Done in this order (stages may be skipped, none is
\* entered twice or after a later one, Answered and FallbackNeeded exclude
\* each other); what it has passed through and sent is never undone; and,
\* every outbound call settling, a request that has started reaches Done
\* having sent exactly one response
StageRank(stage) ==
    CASE stage = "Start"          -> 1
      [] stage = "LLMAttempted"   -> 2
      [] stage = "Answered"       -> 3
      [] stage = "FallbackNeeded" -> 3
      [] stage = "Done"           -> 4

IsPrefix(s, t) == Len(s) <= Len(t) /\ SubSeq(t, 1, Len(s)) = s

StagesInOrder(r) ==
    /\ \A i \in 1..(Len(r.stages) - 1) : StageRank(r.stages[i]) < StageRank(r.stages[i + 1])
    /\ r.pc # "idle" => (Len(r.stages) >= 1 /\ r.stages[1] = "Start")
    /\ "Answered" \in StagesOf(r) => "LLMAttempted" \in StagesOf(r)
    /\ Len(r.responses) = (IF "Done" \in StagesOf(r) THEN 1 ELSE 0)
    /\ r.pc = "done" <=> "Done" \in StagesOf(r)

C20_LinearLifecycle ==
    /\ [] StagesInOrder(req)
    /\ [][ /\ IsPrefix(req.stages, req'.stages)
            /\ IsPrefix(req.responses, req'.responses)
            /\ req.pc = "done" => req' = req ]_vars
    /\ (req.pc # "idle") ~> (req.pc = "done" /\ Len(req.responses) = 1)

C20_Witness ==
    /\ req.pc = "done"
    /\ req.stages = <<"Start", "LLMAttempted", "FallbackNeeded", "Done">>
    /\ CatalogCallCount(req) = 3
    /\ Len(req.responses) = 1

\* C21: the provider a callLLM call works with is fixed when the request is
\* built: whenever the settled call brings an answer in the shape of the
\* provider the request was sent to, that answer is extracted and becomes
\* the reply, also when the settings endpoint has changed the provider
\* while the call was in flight; and no reply is sent as the LLM's answer
\* without such an answer in the response
C21_ReplyExtractedByRequestProvider ==
    /\ req.pc = "awaitLLM" =>
          req.llm.provider = EndpointShape(req.llm.requestConfig.url)
    /\ req.answerSeen.seen =>
          /\ req.answerSeen.shape = req.answerSeen.builtFor
          /\ "Answered" \in StagesOf(req)
          /\ req.responses = <<[status |-> 200, body |-> [reply |-> Str(LLMAnswer)]]>>
    /\ "Answered" \in StagesOf(req) => req.answerSeen.seen

C21_Witness ==
    /\ req.pc = "done"
    /\ req.answerSeen.seen
    /\ req.answerSeen.providerChanged
    /\ req.answerSeen.builtFor = "anthropic"
    /\ req.responses = <<[status |-> 200, body |-> [reply |-> Str(LLMAnswer)]]>>

UserTexts(ms) ==
    LET IsUser(m) == m.sender = "user"
        users == SelectSeq(ms, IsUser)
    IN  [i \in 1..Len(users) |-> users[i].text]

BotMessageCount(ms) ==
    Cardinality({ i \in 1..Len(ms) : ms[i].sender = "bot" /\ ~ms[i].loading })

\* C23: when submissions alone have been made (no clearing of the history)
\* and every request in flight has completed, the message list holds no
\* loading placeholder, the submitted user messages in the order of their
\* submission, and as many bot messages (reply or error text) as messages
\* were submitted
C23_EverySubmissionAnswered ==
    (widget.inflight = <<>> /\ ~widget.cleared) =>
        /\ \A i \in 1..Len(widget.messages) : ~widget.messages[i].loading
        /\ UserTexts(widget.messages) = widget.sent
        /\ BotMessageCount(widget.messages) = Len(widget.sent)
====
